---- MODULE Spec2Model ----
(***************************************************************************)
(* The event-to-dataset pipeline engine of NeuralNetworkDataRefactor:      *)
(* the raw-file cache (extraction), the context normaliser, the template   *)
(* method run(), the driver loop of main.py and the session                *)
(* reconstruction scan of the sessions pipeline.                           *)
(*                                                                         *)
(* Encoding.  A table (DataFrame) is a sequence of rows, a row a function  *)
(* from column names to values.  A timestamp is the number of minutes      *)
(* since 2024-01-01T00:00:00, a Monday.  A context_data value is a record  *)
(* [kind, map]: kind tells how the mapping is written ("dict" a structured *)
(* mapping, "json" a strict-JSON string, "literal" a Python-literal string *)
(* that is not JSON, "garbage" a string neither decoder accepts,           *)
(* "unhashable" a string such as "{[1]: 2}" on which ast.literal_eval      *)
(* raises TypeError), map is the mapping it denotes.  A file is a record   *)
(* [exists, rows].  A visualization artifact is the set of its plot keys.  *)
(***************************************************************************)
EXTENDS Integers, Sequences, FiniteSets, TLC

VARIABLES
    rawFile,       \* action type -> file: data/raw/dataset_<action_type>_raw.csv
    cleanFile,     \* output name -> file: data/clean/dataset_<output_name>_clean.csv
    nruns,         \* number of run() calls made so far
    last,          \* what the most recent run() did
    prev,          \* what the run() before it did, if of the same pipeline
    pc,            \* position of main(): "loop", "report", "done", or "off"
    idx,           \* index in the list of pipelines of the next one to run
    consolidated,  \* main()'s consolidated_viz_data
    invoked,       \* output names whose run() main() has called, in order
    reports,       \* the mappings handed to generate_report, in order
    events,        \* input table of the session reconstruction
    phase,         \* position of _feature_engineering: "sort", "scan", "done", "off"
    todo,          \* players whose groups are still to be scanned, in key order
    player,        \* player of the group being scanned
    group,         \* that player's rows, sorted by dt
    pos,           \* number of rows of the group scanned so far
    login_dt,      \* the open-login slot: <<>> (None) or <<dt>>
    session_data,  \* the sessions appended so far
    scanlog,       \* per scanned row: what the scan did with it
    callee,        \* the step method called on its own: "normalize", ... or "none"
    callP,         \* the pipeline whose method it is
    callIn,        \* the table it is called with
    callOut        \* its outcome: [done, raised, df, artifact]

pipeVars == <<rawFile, cleanFile, nruns, last, prev>>
driverVars == <<pc, idx, consolidated, invoked, reports>>
sessVars == <<events, phase, todo, player, group, pos, login_dt, session_data, scanlog>>
callVars == <<callee, callP, callIn, callOut>>
vars == <<rawFile, cleanFile, nruns, last, prev, pc, idx, consolidated, invoked,
          reports, events, phase, todo, player, group, pos, login_dt,
          session_data, scanlog, callee, callP, callIn, callOut>>

(***************************************************************************)
(* Pipelines and their files                                               *)
(***************************************************************************)
Pipelines ==
    <<"battles", "breeding", "captures", "commands", "deaths",
      "economy", "raids", "released", "sessions", "snapshots">>

PipelineNames == {Pipelines[i] : i \in 1..Len(Pipelines)}

ActionType(p) ==
    CASE p = "battles" -> "BATTLE_END"
      [] p = "breeding" -> "POKEMON_BRED"
      [] p = "captures" -> "POKEMON_CAPTURED"
      [] p = "commands" -> "COMMAND_USAGE"
      [] p = "deaths" -> "PLAYER_DEATH"
      [] p = "economy" -> "GTS_TRANSACTION"
      [] p = "raids" -> "RAID_INTERACTION"
      [] p = "released" -> "POKEMON_RELEASED"
      [] p = "sessions" -> "SESSION_LIFECYCLE"
      [] p = "snapshots" -> "SESSION_SNAPSHOT"

\* The action types whose raw files a pipeline's extraction looks at.
ReadTypes(p) ==
    IF p = "sessions" THEN {"SESSION_LOGIN", "SESSION_LOGOUT"} ELSE {ActionType(p)}

AllTypes == UNION {ReadTypes(p) : p \in PipelineNames}

NoFile == [exists |-> FALSE, rows |-> <<>>]

EmptyMap == [k \in {} |-> ""]

Columns(df) == UNION {DOMAIN df[i] : i \in 1..Len(df)}

\* df.empty
IsEmpty(df) == Len(df) = 0 \/ Columns(df) = {}

WithoutColumn(row, c) == [k \in DOMAIN row \ {c} |-> row[k]]

(***************************************************************************)
(* CSV files                                                               *)
(***************************************************************************)
\* What to_csv writes for a context_data cell: str() of a dict is its Python
\* repr, which is single-quoted unless the dict is empty ("{}").
Stringify(x) ==
    IF x.kind = "dict"
    THEN [kind |-> IF x.map = EmptyMap THEN "json" ELSE "literal", map |-> x.map]
    ELSE x

CsvRow(row) ==
    [c \in DOMAIN row |->
        IF c = "context_data" THEN Stringify(row[c]) ELSE row[c]]

\* df.to_csv(path, index=False): an empty frame leaves a file with no header.
ToCsv(df) == [exists |-> TRUE, rows |-> [i \in 1..Len(df) |-> CsvRow(df[i])]]

\* pd.read_csv(path): a file with no header raises EmptyDataError.
ReadCsv(file) ==
    IF Len(file.rows) = 0
    THEN [raised |-> TRUE, df |-> <<>>]
    ELSE [raised |-> FALSE, df |-> file.rows]

(***************************************************************************)
(* Extraction through the raw-file cache                                   *)
(***************************************************************************)
\* An extraction that fetches whether or not the raw file exists; C3 tells
\* it from ExtractBase.
ExtractBaseRefetch(p, raw, resp) ==
    LET at == ActionType(p) IN
    IF resp[at] = <<>>
    THEN [raised |-> FALSE, df |-> <<>>, raw |-> raw, fetched |-> {at}]
    ELSE [raised |-> FALSE, df |-> resp[at],
          raw |-> [raw EXCEPT ![at] = ToCsv(resp[at])], fetched |-> {at}]

\* BaseDataPipeline._extract_data.  resp[at] is what fetch_data(at) returns
\* if it is called.  The result names the frame returned (or raised), the
\* raw files afterwards and the action types fetch_data was called with.
ExtractBase(p, raw, resp) ==
    LET at == ActionType(p) IN
    IF raw[at].exists
    THEN LET r == ReadCsv(raw[at]) IN
         [raised |-> r.raised, df |-> r.df, raw |-> raw, fetched |-> {}]
    ELSE IF resp[at] = <<>>
    THEN [raised |-> FALSE, df |-> <<>>, raw |-> raw, fetched |-> {at}]
    ELSE [raised |-> FALSE, df |-> resp[at],
          raw |-> [raw EXCEPT ![at] = ToCsv(resp[at])], fetched |-> {at}]

\* One of the two "Load ... Data" blocks of SessionsPipeline._extract_data:
\* on a miss the fetched frame is written whether or not it is empty.
LoadSessionFile(at, raw, resp) ==
    IF ~raw[at].exists
    THEN [raised |-> FALSE, df |-> resp[at],
          raw |-> [raw EXCEPT ![at] = ToCsv(resp[at])], fetched |-> {at}]
    ELSE LET r == ReadCsv(raw[at]) IN
         [raised |-> r.raised, df |-> r.df, raw |-> raw, fetched |-> {}]

\* logins['event_type'] = 'LOGIN' (only if the frame is not empty)
Tag(df, t) ==
    IF IsEmpty(df) THEN df
    ELSE [i \in 1..Len(df) |-> [c \in DOMAIN df[i] \cup {"event_type"} |->
              IF c = "event_type" THEN t ELSE df[i][c]]]

\* SessionsPipeline._extract_data
ExtractSessions(raw, resp) ==
    LET li == LoadSessionFile("SESSION_LOGIN", raw, resp) IN
    IF li.raised THEN li
    ELSE LET lo == LoadSessionFile("SESSION_LOGOUT", li.raw, resp) IN
         IF lo.raised
         THEN [raised |-> TRUE, df |-> <<>>, raw |-> lo.raw,
               fetched |-> li.fetched \cup lo.fetched]
         ELSE [raised |-> FALSE,
               df |-> Tag(li.df, "LOGIN") \o Tag(lo.df, "LOGOUT"),
               raw |-> lo.raw, fetched |-> li.fetched \cup lo.fetched]

ExtractData(p, raw, resp) ==
    IF p = "sessions" THEN ExtractSessions(raw, resp) ELSE ExtractBase(p, raw, resp)

(***************************************************************************)
(* Context normaliser                                                      *)
(***************************************************************************)
CtxOf(row) ==
    IF "context_data" \in DOMAIN row THEN row["context_data"]
    ELSE [kind |-> "nonstr", map |-> EmptyMap]

\* safe_json_load: a dict as it is; a string through json.loads, then
\* ast.literal_eval, whose TypeError is not among the exceptions caught.
SafeJsonLoad(x) ==
    [raised |-> x.kind = "unhashable",
     value |-> IF x.kind \in {"dict", "json", "literal"} THEN x.map ELSE EmptyMap]

\* BaseDataPipeline._clean_json_context
BaseCleanJsonContext(df) ==
    IF "context_data" \notin Columns(df) THEN [raised |-> FALSE, df |-> df]
    ELSE IF \E i \in 1..Len(df) : SafeJsonLoad(CtxOf(df[i])).raised
    THEN [raised |-> TRUE, df |-> <<>>]
    ELSE LET maps == [i \in 1..Len(df) |-> SafeJsonLoad(CtxOf(df[i])).value]
             ctxCols == UNION {DOMAIN maps[i] : i \in 1..Len(df)}
             keep == ctxCols \ Columns(df)
         IN [raised |-> FALSE,
             df |-> [i \in 1..Len(df) |->
                     [c \in (DOMAIN df[i] \ {"context_data"}) \cup keep |->
                         IF c \in DOMAIN df[i] THEN df[i][c]
                         ELSE IF c \in DOMAIN maps[i] THEN maps[i][c]
                         ELSE "NaN"]]]

\* parse_deep_context of the breeding pipeline: row.get('context_data',
\* '{}'), json.loads on a string, the value itself otherwise; any exception
\* and any value that is not a mapping give an empty Series.
ParseDeepContext(row) ==
    LET x == IF "context_data" \in DOMAIN row THEN row["context_data"]
             ELSE [kind |-> "json", map |-> EmptyMap]
        ok == x.kind \in {"dict", "json"}
        get(k, d) == IF k \in DOMAIN x.map THEN x.map[k] ELSE d
    IN IF ~ok THEN EmptyMap
       ELSE [c \in {"species", "is_shiny", "iv_hp", "iv_atk", "iv_def",
                    "iv_spa", "iv_spd", "iv_spe"} |->
               IF c = "species" THEN get("species", "unknown")
               ELSE IF c = "is_shiny"
               THEN (IF get("isShiny", "False") = "True" THEN "1" ELSE "0")
               ELSE "0"]

\* A row maps each column name to one value; the second of two columns that
\* bear the same name c is kept under Dup(c).
Dup(c) ==
    CASE c = "species" -> "species#2"
      [] c = "is_shiny" -> "is_shiny#2"
      [] c = "iv_hp" -> "iv_hp#2"
      [] c = "iv_atk" -> "iv_atk#2"
      [] c = "iv_def" -> "iv_def#2"
      [] c = "iv_spa" -> "iv_spa#2"
      [] c = "iv_spd" -> "iv_spd#2"
      [] c = "iv_spe" -> "iv_spe#2"
      [] OTHER -> "other#2"

\* BreedingPipeline._clean_json_context: pd.concat([df, extracted], axis=1)
\* puts the extracted columns beside the frame's own, context_data included
\* and whether or not the frame has a column of the same name.
BreedingCleanJsonContext(df) ==
    IF IsEmpty(df) THEN [raised |-> FALSE, df |-> df]
    ELSE LET ext == [i \in 1..Len(df) |-> ParseDeepContext(df[i])]
             extCols == UNION {DOMAIN ext[i] : i \in 1..Len(df)}
             fresh == extCols \ Columns(df)
             twice == extCols \cap Columns(df)
             val(i, c) == IF c \in DOMAIN ext[i] THEN ext[i][c] ELSE "NaN"
         IN [raised |-> FALSE,
             df |-> [i \in 1..Len(df) |->
                     [c \in DOMAIN df[i] \cup fresh \cup {Dup(k) : k \in twice} |->
                         IF c \in DOMAIN df[i] THEN df[i][c]
                         ELSE IF c \in fresh THEN val(i, c)
                         ELSE val(i, CHOOSE k \in twice : Dup(k) = c)]]]

CleanJsonContext(p, df) ==
    IF p = "breeding" THEN BreedingCleanJsonContext(df) ELSE BaseCleanJsonContext(df)

(***************************************************************************)
(* Session reconstruction (SessionsPipeline._feature_engineering)          *)
(***************************************************************************)
MaxDuration == 1440

MinutesPerHour == 60

DayNames ==
    <<"Monday", "Tuesday", "Wednesday", "Thursday", "Friday", "Saturday", "Sunday">>

\* pd.NaT: the dt of a row whose timestamp cell is missing
NaT == -1

\* pd.to_datetime(df['timestamp']) under the encoding of timestamps
Dt(row) == IF "timestamp" \in DOMAIN row THEN row["timestamp"] ELSE NaT

\* (row['dt'] - login_dt).total_seconds() is nan when either side is NaT,
\* and every comparison with nan is False.
NotNaN(dt, login) == dt # NaT /\ login # NaT

\* Timestamp.hour and Timestamp.day_name()
HourOf(t) == (t \div MinutesPerHour) % 24

DayName(t) == DayNames[((t \div (24 * MinutesPerHour)) % 7) + 1]

None == <<>>

\* A session stamped with the hour and day of the logout; C8 tells it from
\* Session.
SessionAtLogout(pl, login, logout) ==
    [player_uuid |-> pl,
     duration_minutes |-> Dt(logout) - login,
     hour_of_day |-> HourOf(Dt(logout)),
     day_of_week |-> DayName(Dt(logout))]

\* The dictionary appended to session_data
Session(pl, login, logout) ==
    [player_uuid |-> pl,
     duration_minutes |-> Dt(logout) - login,
     hour_of_day |-> HourOf(login),
     day_of_week |-> DayName(login)]

\* A scan that accepts a duration of exactly MaxDuration; C7 tells it from
\* ScanStep.
ScanStepInclusive(pl, st, row) ==
    IF row["event_type"] = "LOGIN"
    THEN [login_dt |-> <<Dt(row)>>, out |-> st.out]
    ELSE IF row["event_type"] = "LOGOUT" /\ st.login_dt # None
    THEN LET duration_min == Dt(row) - st.login_dt[1] IN
         [login_dt |-> None,
          out |-> IF NotNaN(Dt(row), st.login_dt[1])
                     /\ 0 < duration_min /\ duration_min <= MaxDuration
                  THEN Append(st.out, Session(pl, st.login_dt[1], row))
                  ELSE st.out]
    ELSE st

\* A scan in which a LOGIN does not replace an open login; C9 tells it from
\* ScanStep.
ScanStepKeepFirst(pl, st, row) ==
    IF row["event_type"] = "LOGIN"
    THEN [login_dt |-> IF st.login_dt = None THEN <<Dt(row)>> ELSE st.login_dt,
          out |-> st.out]
    ELSE IF row["event_type"] = "LOGOUT" /\ st.login_dt # None
    THEN LET duration_min == Dt(row) - st.login_dt[1] IN
         [login_dt |-> None,
          out |-> IF NotNaN(Dt(row), st.login_dt[1])
                     /\ 0 < duration_min /\ duration_min < MaxDuration
                  THEN Append(st.out, Session(pl, st.login_dt[1], row))
                  ELSE st.out]
    ELSE st

\* A scan that closes the open login only when it emits a session; C10
\* tells it from ScanStep.
ScanStepNoReset(pl, st, row) ==
    IF row["event_type"] = "LOGIN"
    THEN [login_dt |-> <<Dt(row)>>, out |-> st.out]
    ELSE IF row["event_type"] = "LOGOUT" /\ st.login_dt # None
    THEN LET duration_min == Dt(row) - st.login_dt[1] IN
         IF NotNaN(Dt(row), st.login_dt[1])
                     /\ 0 < duration_min /\ duration_min < MaxDuration
         THEN [login_dt |-> None,
               out |-> Append(st.out, Session(pl, st.login_dt[1], row))]
         ELSE st
    ELSE st

\* One iteration of "for _, row in group.iterrows()": st is the pair of
\* login_dt and session_data.
ScanStep(pl, st, row) ==
    IF row["event_type"] = "LOGIN"
    THEN [login_dt |-> <<Dt(row)>>, out |-> st.out]
    ELSE IF row["event_type"] = "LOGOUT" /\ st.login_dt # None
    THEN LET duration_min == Dt(row) - st.login_dt[1] IN
         [login_dt |-> None,
          out |-> IF NotNaN(Dt(row), st.login_dt[1])
                     /\ 0 < duration_min /\ duration_min < MaxDuration
                  THEN Append(st.out, Session(pl, st.login_dt[1], row))
                  ELSE st.out]
    ELSE st

RECURSIVE ScanRows(_, _, _)
ScanRows(pl, st, rows) ==
    IF rows = <<>> THEN st
    ELSE ScanRows(pl, ScanStep(pl, st, Head(rows)), Tail(rows))

\* The keys of df.groupby('player_uuid'), in sorted order.
PlayerOrder == <<"A", "B">>

Players == {PlayerOrder[i] : i \in 1..Len(PlayerOrder)}

PlayersIn(df) == {df[i]["player_uuid"] : i \in 1..Len(df)}

GroupKeys(df) == SelectSeq(PlayerOrder, LAMBDA k : k \in PlayersIn(df))

\* A grouping that hands every row to every player; C11 tells it from
\* GroupRows.
GroupRowsShared(df, pl) == df

GroupRows(df, pl) == SelectSeq(df, LAMBDA r : r["player_uuid"] = pl)

Without(g, i) == SubSeq(g, 1, i - 1) \o SubSeq(g, i + 1, Len(g))

\* The order of sort_values: ascending, NaT last
NotAfter(a, b) == b = NaT \/ (a # NaT /\ a <= b)

\* A group left in the order of arrival of its rows; C26 tells it from
\* SortedByDt.
InArrivalOrder(g) == {g}

\* group.sort_values('dt') is numpy's quicksort, which is not stable: rows
\* come out in ascending dt, rows of equal dt in any order.
RECURSIVE SortedByDt(_)
SortedByDt(g) ==
    IF g = <<>> THEN {<<>>}
    ELSE UNION {{<<g[i]>> \o rest : rest \in SortedByDt(Without(g, i))} :
                   i \in {j \in 1..Len(g) : \A k \in 1..Len(g) :
                              NotAfter(Dt(g[j]), Dt(g[k]))}}

RECURSIVE SessionTables(_, _)
SessionTables(df, keys) ==
    IF keys = <<>> THEN {<<>>}
    ELSE {ScanRows(Head(keys), [login_dt |-> None, out |-> <<>>], g).out \o rest :
             g \in SortedByDt(GroupRows(df, Head(keys))),
             rest \in SessionTables(df, Tail(keys))}

\* The frames _feature_engineering of the sessions pipeline can return.
SessionsFeatureEngineering(df) == SessionTables(df, GroupKeys(df))

(***************************************************************************)
(* Domain steps of the other pipelines.  The bounded inputs carry the      *)
(* columns player_uuid, timestamp, server_id and the context keys result,  *)
(* opponentType, species, isShiny, command, cause, itemType, description,  *)
(* price, fly_ratio, level, world and biome; the branches of the code on   *)
(* other columns are left out.  Values are kept as the strings the CSV     *)
(* file holds.                                                             *)
(***************************************************************************)
Has(df, c) == c \in Columns(df)

RowsOf(df) == {df[i] : i \in 1..Len(df)}

\* df[c] = ... for every column c of the mapping new[row]
Assign(df, new) ==
    [i \in 1..Len(df) |->
        [c \in DOMAIN df[i] \cup DOMAIN new[df[i]] |->
            IF c \in DOMAIN new[df[i]] THEN new[df[i]][c] ELSE df[i][c]]]

Upper(v) == CASE v = "win" -> "WIN" [] v = "loss" -> "LOSS" [] OTHER -> v

\* x.split(' ')[0], len(x) and the teleport keywords of the commands pipeline
BaseCommand(v) == CASE v = "/home base" -> "/home" [] v = "/msg hi" -> "/msg" [] OTHER -> v

CmdLength(v) == CASE v = "/home base" -> "10" [] v = "/msg hi" -> "7" [] OTHER -> "3"

IsTeleport(b) ==
    IF b \in {"/home", "/warp", "/tpa", "/tpaccept", "/back", "/spawn", "/rtp"}
    THEN "True" ELSE "False"

\* categorize(cause) of the deaths pipeline
Categorize(c) ==
    CASE c \in {"fall", "kinetic"} -> "Gravity"
      [] c \in {"mob", "arrow"} -> "PvE"
      [] c = "player" -> "PvP"
      [] c \in {"lava", "fire"} -> "Fire"
      [] c = "drown" -> "Drowning"
      [] OTHER -> "Other"

\* parse_desc(row) of the economy pipeline: "Name LvlN" of a POKEMON item
ParseDesc(row) ==
    LET desc == IF "description" \in DOMAIN row THEN row["description"] ELSE ""
        itype == IF "itemType" \in DOMAIN row THEN row["itemType"] ELSE "ITEM"
        match == itype = "POKEMON" /\ desc = "Pikachu Lvl5"
    IN [c \in {"product_name", "level"} |->
           IF c = "product_name" THEN (IF match THEN "Pikachu" ELSE desc)
           ELSE (IF match THEN "5" ELSE "0")]

IvCols == {"iv_hp", "iv_atk", "iv_def", "iv_spa", "iv_spd", "iv_spe"}

\* to_numeric(errors='coerce').fillna(0) on the strings of the bounded inputs
Numeric(v) == IF v = "NaN" THEN "0" ELSE v

\* _feature_engineering of the nine pipelines other than sessions
FeatureEngineering(p, df) ==
    CASE p = "battles" ->
           IF IsEmpty(df) THEN df
           ELSE IF Has(df, "result")
           THEN Assign(df, [r \in RowsOf(df) |->
                    [c \in {"target"} |-> IF Upper(r["result"]) = "WIN" THEN "1" ELSE "0"]])
           ELSE df
      [] p = "breeding" ->
           IF IsEmpty(df) THEN df
           ELSE Assign(df, [r \in RowsOf(df) |->
                    [c \in IvCols \cup {"iv_total", "iv_percentage"} |->
                        IF c \in IvCols /\ c \in DOMAIN r THEN Numeric(r[c]) ELSE "0"]])
      [] p = "captures" -> df
      [] p = "commands" ->
           IF Has(df, "command")
           THEN Assign(df, [r \in RowsOf(df) |->
                    [c \in {"base_command", "cmd_length", "is_teleport"} |->
                        IF c = "base_command" THEN BaseCommand(r["command"])
                        ELSE IF c = "cmd_length" THEN CmdLength(r["command"])
                        ELSE IsTeleport(BaseCommand(r["command"]))]])
           ELSE df
      [] p = "deaths" ->
           IF Has(df, "cause")
           THEN Assign(df, [r \in RowsOf(df) |->
                    [c \in {"death_category"} |-> Categorize(r["cause"])]])
           ELSE df
      [] p = "economy" ->
           LET d == Assign(df, [r \in RowsOf(df) |-> ParseDesc(r)]) IN
           IF Has(d, "price")
           THEN Assign(d, [r \in RowsOf(d) |-> [c \in {"price"} |-> Numeric(r["price"])]])
           ELSE d
      [] p = "raids" ->
           IF IsEmpty(df) THEN df
           ELSE IF Has(df, "world") /\ Has(df, "biome")
           THEN Assign(df, [r \in RowsOf(df) |->
                    [c \in {"world", "biome"} |->
                        IF c = "world" THEN r["biome"] ELSE r["world"]]])
           ELSE df
      [] p = "released" ->
           IF IsEmpty(df) THEN df
           ELSE IF Has(df, "level")
           THEN Assign(df, [r \in RowsOf(df) |->
                    [c \in {"level"} |-> Numeric(r["level"])]])
           ELSE df
      [] p = "snapshots" ->
           IF IsEmpty(df) THEN df
           ELSE IF Has(df, "fly_ratio")
           THEN Assign(df, [r \in RowsOf(df) |->
                    [c \in {"fly_ratio"} |-> Numeric(r["fly_ratio"])]])
           ELSE df

\* A feature step that never raises; C18 tells it from FeatureRaises.
FeatureNeverRaises(p, df) == FALSE

\* Whether the domain feature step of pipeline p raises on df: the sessions
\* step creates dt only if the timestamp column exists and then sorts by
\* player_uuid and dt, groups by player_uuid and reads row['event_type'],
\* each a KeyError if the column is absent; the other steps test for their
\* columns first.
FeatureRaises(p, df) ==
    /\ p = "sessions"
    /\ ~({"timestamp", "player_uuid", "event_type"} \subseteq Columns(df))

\* The frames the domain feature step of pipeline p can return.
FeatureOutcomes(p, df) ==
    IF p = "sessions" THEN SessionsFeatureEngineering(df)
    ELSE {FeatureEngineering(p, df)}

\* pd.get_dummies(df['server_id'], prefix='server') joined to the frame
ServerColumn(v) == CASE v = "s1" -> "server_s1" [] v = "s2" -> "server_s2"

GlobalFeatures(df) ==
    IF Has(df, "server_id")
    THEN LET servers == {df[i]["server_id"] : i \in 1..Len(df)} IN
         [i \in 1..Len(df) |->
             [c \in DOMAIN df[i] \cup {ServerColumn(v) : v \in servers} |->
                 IF c \in DOMAIN df[i] THEN df[i][c]
                 ELSE IF c = ServerColumn(df[i]["server_id"]) THEN "True" ELSE "False"]]
    ELSE df

\* _generate_visualization_data: the keys of the plots returned
GenerateVisualizationData(p, df) ==
    LET rows == Len(df) > 0
        key(cond, k) == IF cond THEN {k} ELSE {}
    IN CASE p = "battles" ->
              key(Has(df, "opponentType") /\ Has(df, "target") /\ rows, "win_rate")
         [] p = "breeding" ->
              key(Has(df, "species") /\ rows, "top_bred")
              \cup key(Has(df, "iv_percentage") /\ rows, "iv_dist")
         [] p = "captures" ->
              key(Has(df, "iv_percentage"), "iv_dist")
              \cup key(Has(df, "species"), "top_captured")
         [] p = "commands" -> key(Has(df, "base_command"), "top_cmds")
         [] p = "deaths" ->
              key(Has(df, "death_category"), "causes")
              \cup key(Has(df, "biome"), "deadliest_biomes")
              \cup key(Has(df, "level"), "level_dist")
         [] p = "economy" ->
              LET sales == IF Has(df, "itemType")
                           THEN SelectSeq(df, LAMBDA r : r["itemType"] = "POKEMON")
                           ELSE df
              IN key(~IsEmpty(sales) /\ Has(sales, "product_name") /\ Has(sales, "price"),
                     "top_expensive")
                 \cup key(~IsEmpty(sales) /\ Has(sales, "level") /\ Has(sales, "price"),
                          "price_scatter")
                 \cup key(Has(df, "server_id"), "server_volume")
         [] p = "raids" -> key(Has(df, "result") /\ rows, "raid_results")
         [] p = "released" ->
              key(Has(df, "species") /\ rows, "top_released")
              \cup key(Has(df, "iv_percentage") /\ rows, "iv_distribution")
         [] p = "sessions" ->
              IF IsEmpty(df) THEN {}
              ELSE key(Has(df, "duration_minutes"), "duration_dist")
                   \cup key(Has(df, "day_of_week") /\ Has(df, "hour_of_day"), "heatmap")
         [] p = "snapshots" ->
              key(Has(df, "totalDistance_km") /\ rows, "distance_dist")
              \cup key(Has(df, "fly_ratio") /\ rows, "fly_ratio")

(***************************************************************************)
(* The template method BaseDataPipeline.run                                *)
(***************************************************************************)
\* What one call of run() did: how it ended ("no_data", "returned" or
\* "raised"), the artifact returned, the files afterwards, the action types
\* fetch_data was called with, the frame extraction returned, the cleaned
\* table _save_data wrote (NoFile if it was not called) and the steps begun.
RunResult(outcome, artifact, raw, clean, fetched, extracted, wrote, steps) ==
    [outcome |-> outcome, artifact |-> artifact, raw |-> raw, clean |-> clean,
     fetched |-> fetched, extracted |-> extracted, wrote |-> wrote, steps |-> steps]

\* _save_data
SaveData(p, clean, df) == [clean EXCEPT ![p] = ToCsv(df)]

\* A run() without the "if df.empty" return; C4 tells it from Run.
RunNoShortCircuit(p, raw, clean, resp) ==
    LET ex == ExtractData(p, raw, resp) IN
    IF ex.raised
    THEN {RunResult("raised", {}, ex.raw, clean, ex.fetched, <<>>, NoFile, <<"extract">>)}
    ELSE LET cj == CleanJsonContext(p, ex.df) IN
         IF cj.raised
         THEN {RunResult("raised", {}, ex.raw, clean, ex.fetched, ex.df, NoFile,
                         <<"extract", "normalize">>)}
         ELSE IF FeatureRaises(p, cj.df)
         THEN {RunResult("raised", {}, ex.raw, clean, ex.fetched, ex.df, NoFile,
                         <<"extract", "normalize", "feature">>)}
         ELSE {LET g == GlobalFeatures(fe) IN
               RunResult("returned", GenerateVisualizationData(p, g), ex.raw,
                         SaveData(p, clean, g), ex.fetched, ex.df, ToCsv(g),
                         <<"extract", "normalize", "feature", "global", "save", "viz">>) :
                  fe \in FeatureOutcomes(p, cj.df)}

\* A run() that persists the table before the global feature step; C16
\* tells it from RunFrom.
RunFromSaveFirst(p, clean, ex) ==
    IF ex.raised
    THEN {RunResult("raised", {}, ex.raw, clean, ex.fetched, <<>>, NoFile, <<"extract">>)}
    ELSE IF IsEmpty(ex.df)
    THEN {RunResult("no_data", {}, ex.raw, clean, ex.fetched, ex.df, NoFile, <<"extract">>)}
    ELSE UNION {
         IF cj.raised
         THEN {RunResult("raised", {}, ex.raw, clean, ex.fetched, ex.df, NoFile,
                         <<"extract", "normalize">>)}
         ELSE IF FeatureRaises(p, cj.df)
         THEN {RunResult("raised", {}, ex.raw, clean, ex.fetched, ex.df, NoFile,
                         <<"extract", "normalize", "feature">>)}
         ELSE UNION {{RunResult("returned", GenerateVisualizationData(p, g), ex.raw,
                                SaveData(p, clean, fe), ex.fetched, ex.df, ToCsv(fe),
                                <<"extract", "normalize", "feature", "global",
                                  "save", "viz">>) :
                         g \in {GlobalFeatures(fe)}} :
                     fe \in FeatureOutcomes(p, cj.df)} :
         cj \in {CleanJsonContext(p, ex.df)}}

\* run() from the return of _extract_data on: the no-data return, then
\* normalisation, domain features, global features, save and visualisation.
RunFrom(p, clean, ex) ==
    IF ex.raised
    THEN {RunResult("raised", {}, ex.raw, clean, ex.fetched, <<>>, NoFile, <<"extract">>)}
    ELSE IF IsEmpty(ex.df)
    THEN {RunResult("no_data", {}, ex.raw, clean, ex.fetched, ex.df, NoFile, <<"extract">>)}
    ELSE UNION {
         IF cj.raised
         THEN {RunResult("raised", {}, ex.raw, clean, ex.fetched, ex.df, NoFile,
                         <<"extract", "normalize">>)}
         ELSE IF FeatureRaises(p, cj.df)
         THEN {RunResult("raised", {}, ex.raw, clean, ex.fetched, ex.df, NoFile,
                         <<"extract", "normalize", "feature">>)}
         ELSE UNION {{RunResult("returned", GenerateVisualizationData(p, g), ex.raw,
                                SaveData(p, clean, g), ex.fetched, ex.df, ToCsv(g),
                                <<"extract", "normalize", "feature", "global",
                                  "save", "viz">>) :
                         g \in {GlobalFeatures(fe)}} :
                     fe \in FeatureOutcomes(p, cj.df)} :
         cj \in {CleanJsonContext(p, ex.df)}}

\* The results run() of pipeline p can have from the files raw and clean
\* when fetch_data answers resp.
Run(p, raw, clean, resp) ==
    UNION {RunFrom(p, clean, ex) : ex \in {ExtractData(p, raw, resp)}}

(***************************************************************************)
(* What fetch_data can answer within the bounds                            *)
(***************************************************************************)
Ctx(kind, map) == [kind |-> kind, map |-> map]

\* The context mapping of a well-formed event of each pipeline
DomainContext(p) ==
    CASE p = "battles" -> [result |-> "WIN", opponentType |-> "WILD"]
      [] p = "breeding" -> [species |-> "Pikachu", isShiny |-> "True"]
      [] p = "captures" -> [species |-> "Pikachu"]
      [] p = "commands" -> [command |-> "/home base"]
      [] p = "deaths" -> [cause |-> "fall"]
      [] p = "economy" ->
           [itemType |-> "POKEMON", description |-> "Pikachu Lvl5", price |-> "100"]
      [] p = "raids" -> [result |-> "WIN"]
      [] p = "released" -> [species |-> "Pikachu"]
      [] p = "snapshots" -> [fly_ratio |-> "0.5"]

Event(pl, t, ctx) ==
    [player_uuid |-> pl, timestamp |-> t, server_id |-> "s1", context_data |-> ctx]

LoginTime == 1380

LogoutTime == 1455

\* Non-empty answers: a well-formed event with a structured context, an
\* event without server_id whose context does not decode, and an event
\* whose context makes ast.literal_eval raise.
PipelineOf(at) == CHOOSE q \in PipelineNames : at \in ReadTypes(q)

WellFormed(at) ==
    IF at = "SESSION_LOGIN" THEN <<Event("A", LoginTime, Ctx("json", EmptyMap))>>
    ELSE IF at = "SESSION_LOGOUT" THEN <<Event("A", LogoutTime, Ctx("json", EmptyMap))>>
    ELSE <<Event("A", LoginTime, Ctx("dict", DomainContext(PipelineOf(at))))>>

Undecodable ==
    <<[player_uuid |-> "A", timestamp |-> LoginTime,
       context_data |-> Ctx("garbage", EmptyMap)]>>

Unhashable == <<Event("A", LoginTime, Ctx("unhashable", EmptyMap))>>

Answers(at) ==
    IF at = "SESSION_LOGIN" THEN {<<>>, WellFormed(at)}
    ELSE IF at = "SESSION_LOGOUT" THEN {<<>>, WellFormed(at), Unhashable}
    ELSE {<<>>, WellFormed(at), Undecodable, Unhashable}

(***************************************************************************)
(* Idle values of the variables a specification does not use               *)
(***************************************************************************)
NoFiles == [at \in AllTypes |-> NoFile]

NoCleanFiles == [p \in PipelineNames |-> NoFile]

\* The record kept of a call of run(): the pipeline, its raw files and its
\* cleaned file before and after, what fetch_data answered where it was
\* called, and the result without the file system.
RunRecord(p, raw, clean, resp, r) ==
    [p |-> p,
     rawBefore |-> [at \in ReadTypes(p) |-> raw[at]],
     rawAfter |-> [at \in ReadTypes(p) |-> r.raw[at]],
     cleanBefore |-> clean[p],
     cleanAfter |-> r.clean[p],
     answer |-> [at \in r.fetched |-> resp[at]],
     res |-> [outcome |-> r.outcome, artifact |-> r.artifact, fetched |-> r.fetched,
              extracted |-> r.extracted, wrote |-> r.wrote, steps |-> r.steps]]

NoRun ==
    [p |-> "none", rawBefore |-> EmptyMap, rawAfter |-> EmptyMap,
     cleanBefore |-> NoFile, cleanAfter |-> NoFile, answer |-> EmptyMap,
     res |-> [outcome |-> "none", artifact |-> {}, fetched |-> {},
              extracted |-> <<>>, wrote |-> NoFile, steps |-> <<>>]]

PipeIdle ==
    /\ rawFile = NoFiles
    /\ cleanFile = NoCleanFiles
    /\ nruns = 0
    /\ last = NoRun
    /\ prev = NoRun

DriverIdle ==
    /\ pc = "off"
    /\ idx = 0
    /\ consolidated = EmptyMap
    /\ invoked = <<>>
    /\ reports = <<>>

NotCalled == [done |-> FALSE, raised |-> FALSE, df |-> <<>>, artifact |-> {}]

CallIdle ==
    /\ callee = "none"
    /\ callP = "none"
    /\ callIn = <<>>
    /\ callOut = NotCalled

SessIdle ==
    /\ events = <<>>
    /\ phase = "off"
    /\ todo = <<>>
    /\ player = "none"
    /\ group = <<>>
    /\ pos = 0
    /\ login_dt = None
    /\ session_data = <<>>
    /\ scanlog = <<>>

(***************************************************************************)
(* Spec: run() of any pipeline, called again and again on one file system  *)
(***************************************************************************)
MaxRuns == 3

AnswersTo(types) ==
    {f \in [types -> UNION {Answers(at) : at \in types}] :
        \A at \in types : f[at] \in Answers(at)}

Init == PipeIdle /\ DriverIdle /\ SessIdle /\ CallIdle

RunPipeline ==
    /\ nruns < MaxRuns
    /\ \E p \in PipelineNames :
         \E resp \in AnswersTo(ReadTypes(p)) :
         \E r \in Run(p, rawFile, cleanFile, resp) :
            /\ rawFile' = r.raw
            /\ cleanFile' = r.clean
            /\ nruns' = nruns + 1
            /\ prev' = IF last.p = p THEN last ELSE NoRun
            /\ last' = RunRecord(p, rawFile, cleanFile, resp, r)
    /\ UNCHANGED <<driverVars, sessVars, callVars>>

Next == RunPipeline

Spec == Init /\ [][Next]_vars

(***************************************************************************)
(* Claims about the cache and run(), on the last run and the one before    *)
(***************************************************************************)
ExtractionRaised(run) == run.res.outcome = "raised" /\ run.res.steps = <<"extract">>

\* The rows of the frame extraction returned that belong to action type at
ExtractedFor(at, run) ==
    LET tag == IF at = "SESSION_LOGIN" THEN "LOGIN" ELSE "LOGOUT"
        part == SelectSeq(run.res.extracted, LAMBDA r : r["event_type"] = tag)
    IN IF run.p = "sessions"
       THEN [i \in 1..Len(part) |-> WithoutColumn(part[i], "event_type")]
       ELSE run.res.extracted

Hit(at, run) == run.rawBefore[at].exists

AllHit(run) == \A at \in ReadTypes(run.p) : Hit(at, run)

\* C1: fetch_data is called for an action type only when its raw file does
\* not exist; when the file exists extraction returns the file's rows, does
\* not fetch and does not rewrite the file; a non-empty fetch on a miss
\* writes the file, and the next run of the pipeline is a hit.
C1_CacheAuthoritative ==
    /\ last.p # "none" =>
         \A at \in ReadTypes(last.p) :
            /\ at \in last.res.fetched => ~Hit(at, last)
            /\ Hit(at, last) =>
                 /\ ~ExtractionRaised(last)
                 /\ ExtractedFor(at, last) = last.rawBefore[at].rows
                 /\ last.rawAfter[at] = last.rawBefore[at]
            /\ (at \in last.res.fetched /\ last.answer[at] # <<>>) =>
                 last.rawAfter[at] = ToCsv(last.answer[at])
    /\ (prev.p # "none" /\ prev.p = last.p) =>
         \A at \in prev.res.fetched :
            prev.answer[at] # <<>> => at \notin last.res.fetched

\* The part of C1 that holds of the code: no fetch and no rewrite on a hit,
\* the write on a miss with data.
C1_NoFetchOnHit ==
    last.p # "none" =>
        \A at \in ReadTypes(last.p) :
            /\ at \in last.res.fetched => ~Hit(at, last)
            /\ Hit(at, last) => last.rawAfter[at] = last.rawBefore[at]
            /\ (at \in last.res.fetched /\ last.answer[at] # <<>>) =>
                 last.rawAfter[at] = ToCsv(last.answer[at])

\* C2: on a miss with an empty answer extraction returns no rows for the
\* action type and creates no raw file, and the next run of the pipeline
\* calls fetch_data for it again.
C2_EmptyFetchNotCached ==
    /\ last.p # "none" =>
         \A at \in last.res.fetched :
            last.answer[at] = <<>> =>
               /\ ExtractedFor(at, last) = <<>>
               /\ ~last.rawAfter[at].exists
    /\ (prev.p # "none" /\ prev.p = last.p) =>
         \A at \in prev.res.fetched :
            prev.answer[at] = <<>> => at \in last.res.fetched

\* The part of C2 that holds of the code: the pipelines that use the base
\* extraction create no file on an empty answer and fetch again next time.
C2_BaseEmptyFetchNotCached ==
    /\ (last.p # "none" /\ last.p # "sessions") =>
         \A at \in last.res.fetched :
            last.answer[at] = <<>> =>
               /\ ExtractedFor(at, last) = <<>>
               /\ ~last.rawAfter[at].exists
    /\ (prev.p # "none" /\ prev.p = last.p /\ last.p # "sessions") =>
         \A at \in prev.res.fetched :
            prev.answer[at] = <<>> => at \in last.res.fetched

\* C3: two runs in succession of one pipeline whose raw files exist and are
\* the same before both write the same cleaned table, and fetch_data is
\* called in neither.
C3_CacheIdempotence ==
    (/\ prev.p # "none"
     /\ prev.p = last.p
     /\ AllHit(prev)
     /\ last.rawBefore = prev.rawBefore) =>
        /\ last.res.wrote = prev.res.wrote
        /\ last.cleanAfter = prev.cleanAfter
        /\ prev.res.fetched = {}
        /\ last.res.fetched = {}

C3_Witness ==
    /\ prev.p # "none"
    /\ prev.p = last.p
    /\ AllHit(prev)
    /\ last.rawBefore = prev.rawBefore
    /\ last.res.wrote.exists
    /\ last.cleanAfter = last.res.wrote

\* C4: when extraction returns an empty table run() returns an empty
\* artifact without raising, begins no step after extraction and writes no
\* cleaned table: the cleaned file is as it was.
C4_NoDataShortCircuit ==
    (last.p # "none" /\ ~ExtractionRaised(last) /\ IsEmpty(last.res.extracted)) =>
        /\ last.res.outcome = "no_data"
        /\ last.res.artifact = {}
        /\ last.res.steps = <<"extract">>
        /\ last.res.wrote = NoFile
        /\ last.cleanAfter = last.cleanBefore

C4_Witness ==
    /\ last.p # "none"
    /\ last.res.outcome = "no_data"
    /\ last.res.fetched # {}
    /\ cleanFile[last.p] = NoFile
    /\ \E q \in PipelineNames : cleanFile[q].exists

(***************************************************************************)
(* DriverSpec: one execution of main()                                     *)
(***************************************************************************)
\* The raw files an earlier batch leaves when every fetch came back empty.
AfterEmptyBatch ==
    [at \in AllTypes |->
        IF at \in {"SESSION_LOGIN", "SESSION_LOGOUT"} THEN ToCsv(<<>>) ELSE NoFile]

\* The answers of fetch_data drawn in DriverSpec
DriverAnswers == [at \in AllTypes |-> Answers(at) \ {Undecodable}]

\* The answers drawn in FairDriverSpec, where the question is which of the
\* pipelines raise: rows that pass, or rows on which normalisation raises.
BatchAnswers ==
    [at \in AllTypes |->
        IF at = "SESSION_LOGIN" THEN {<<>>, WellFormed(at)}
        ELSE {WellFormed(at), Unhashable}]

AnswersOver(D, types) ==
    {f \in AnswersTo(types) : \A at \in types : f[at] \in D[at]}

\* A collection that stores empty artifacts too; C5 tells it from Collect.
CollectAlways(cons, p, r) ==
    IF r.outcome # "raised" THEN (p :> r.artifact) @@ cons ELSE cons

\* The body of "try:" with its "except Exception": the mapping after the
\* call of run() of pipeline p ended as r.
Collect(cons, p, r) ==
    IF r.outcome # "raised" /\ r.artifact # {}
    THEN (p :> r.artifact) @@ cons
    ELSE cons

\* A driver that lets the exception of run() through; C6 tells it from
\* AfterRun.
AfterRunAbort(i, r) ==
    IF r.outcome = "raised" THEN "crashed"
    ELSE IF i = Len(Pipelines) THEN "report" ELSE "loop"

\* Where main() goes after the call of run() of the i-th pipeline ended as r:
\* the exception is caught, the loop goes on.
AfterRun(i, r) == IF i = Len(Pipelines) THEN "report" ELSE "loop"

DriverInit ==
    /\ rawFile \in {NoFiles, AfterEmptyBatch}
    /\ cleanFile = NoCleanFiles
    /\ nruns = 0
    /\ last = NoRun
    /\ prev = NoRun
    /\ pc = "loop"
    /\ idx = 1
    /\ consolidated = EmptyMap
    /\ invoked = <<>>
    /\ reports = <<>>
    /\ SessIdle
    /\ CallIdle

\* One iteration of "for pipeline in pipelines", fetch_data answering from D
LoopBodyOver(D) ==
    /\ pc = "loop"
    /\ idx <= Len(Pipelines)
    /\ \E resp \in AnswersOver(D, ReadTypes(Pipelines[idx])) :
       \E r \in Run(Pipelines[idx], rawFile, cleanFile, resp) :
          /\ rawFile' = r.raw
          /\ cleanFile' = r.clean
          /\ consolidated' = Collect(consolidated, Pipelines[idx], r)
          /\ invoked' = Append(invoked, [name |-> Pipelines[idx],
                                         outcome |-> r.outcome,
                                         artifact |-> r.artifact])
          /\ pc' = AfterRun(idx, r)
          /\ idx' = idx + 1
    /\ UNCHANGED <<nruns, last, prev, reports, sessVars, callVars>>

LoopBody == LoopBodyOver(DriverAnswers)

BatchLoopBody == LoopBodyOver(BatchAnswers)

\* reporter.generate_report(consolidated_viz_data), then "PROCESS COMPLETE"
GenerateReport ==
    /\ pc = "report"
    /\ reports' = Append(reports, consolidated)
    /\ pc' = "done"
    /\ UNCHANGED <<pipeVars, idx, consolidated, invoked, sessVars, callVars>>

DriverNext == LoopBody \/ GenerateReport

DriverSpec == DriverInit /\ [][DriverNext]_vars

BatchNext == BatchLoopBody \/ GenerateReport

\* main() is one thread that runs to completion: a step that can be taken
\* is taken.
FairDriverSpec == DriverInit /\ [][BatchNext]_vars /\ WF_vars(BatchNext)

(***************************************************************************)
(* DriftSpec: main() when the events fetched can lack expected fields      *)
(***************************************************************************)
\* An event of a drifted schema: a session event without timestamp, an
\* event of another pipeline whose context carries none of its fields.
Drifted(at) ==
    IF at \in {"SESSION_LOGIN", "SESSION_LOGOUT"}
    THEN <<[player_uuid |-> "A", server_id |-> "s1",
            context_data |-> Ctx("json", EmptyMap)]>>
    ELSE <<Event("A", LoginTime, Ctx("json", EmptyMap))>>

\* The answers drawn in DriftSpec: rows with every expected field or rows
\* of a drifted schema, and no rows for the session types.
DriftAnswers ==
    [at \in AllTypes |->
        IF at \in {"SESSION_LOGIN", "SESSION_LOGOUT"}
        THEN {<<>>, WellFormed(at), Drifted(at)}
        ELSE {WellFormed(at), Drifted(at)}]

\* One iteration of the loop of main() that keeps the whole result of run()
\* in last, fetch_data answering from DriftAnswers.
DriftLoopBody ==
    /\ pc = "loop"
    /\ idx <= Len(Pipelines)
    /\ \E resp \in {f \in [ReadTypes(Pipelines[idx]) ->
                               UNION {DriftAnswers[at] : at \in AllTypes}] :
                        \A at \in ReadTypes(Pipelines[idx]) : f[at] \in DriftAnswers[at]} :
       \E r \in Run(Pipelines[idx], rawFile, cleanFile, resp) :
          /\ rawFile' = r.raw
          /\ cleanFile' = r.clean
          /\ consolidated' = Collect(consolidated, Pipelines[idx], r)
          /\ invoked' = Append(invoked, [name |-> Pipelines[idx],
                                         outcome |-> r.outcome,
                                         artifact |-> r.artifact])
          /\ last' = RunRecord(Pipelines[idx], rawFile, cleanFile, resp, r)
          /\ pc' = AfterRun(idx, r)
          /\ idx' = idx + 1
    /\ UNCHANGED <<nruns, prev, reports, sessVars, callVars>>

DriftNext == DriftLoopBody \/ GenerateReport

DriftSpec == DriverInit /\ [][DriftNext]_vars

(***************************************************************************)
(* Claims about the driver                                                 *)
(***************************************************************************)
InvokedNames == [i \in 1..Len(invoked) |-> invoked[i].name]

Collected ==
    {invoked[i].name : i \in {j \in 1..Len(invoked) :
        invoked[j].outcome # "raised" /\ invoked[j].artifact # {}}}

\* C5: the consolidated mapping holds the output name of a pipeline exactly
\* when its run() returned, without raising, a non-empty artifact, and then
\* it holds that artifact: a run() that raises adds nothing and leaves the
\* entries of the pipelines before and after it alone.
C5_ConsolidatedMapping ==
    /\ DOMAIN consolidated = Collected
    /\ \A i \in 1..Len(invoked) :
          invoked[i].name \in DOMAIN consolidated =>
             consolidated[invoked[i].name] = invoked[i].artifact

C5_Witness ==
    /\ pc = "done"
    /\ \E i, j, k \in 1..Len(invoked) :
          /\ i < j /\ j < k
          /\ invoked[j].outcome = "raised"
          /\ invoked[i].name \in DOMAIN consolidated
          /\ invoked[k].name \in DOMAIN consolidated
    /\ \E i \in 1..Len(invoked) :
          invoked[i].outcome = "returned" /\ invoked[i].artifact = {}

IsPrefix(s, t) == Len(s) <= Len(t) /\ \A i \in 1..Len(s) : s[i] = t[i]

MaxEvents == 3

\* The instants of the events: a login, a logout 75 minutes later and past
\* midnight, and the instant MaxDuration after the login.
SessTimes == {LoginTime, LogoutTime, LoginTime + MaxDuration}

EventRows(type) ==
    [player_uuid : Players, timestamp : SessTimes, event_type : {type}]

\* The frames _extract_data hands over: the LOGIN rows, then the LOGOUT
\* rows; run() does not go on with an empty frame.
EventTables ==
    UNION {{li \o lo : li \in [1..k -> EventRows("LOGIN")],
                       lo \in [1..(n - k) -> EventRows("LOGOUT")]} :
              <<n, k>> \in {nk \in (1..MaxEvents) \X (0..MaxEvents) : nk[2] <= nk[1]}}

SessInit ==
    /\ PipeIdle
    /\ DriverIdle
    /\ CallIdle
    /\ events \in EventTables
    /\ phase = "sort"
    /\ todo = <<>>
    /\ player = "none"
    /\ group = <<>>
    /\ pos = 0
    /\ login_dt = None
    /\ session_data = <<>>
    /\ scanlog = <<>>

\* dt column, sort by player and dt, session_data = [], groupby
SortAndGroup ==
    /\ phase = "sort"
    /\ todo' = GroupKeys(events)
    /\ session_data' = <<>>
    /\ phase' = "group"
    /\ UNCHANGED <<pipeVars, driverVars, callVars, events, player, group, pos, login_dt, scanlog>>

\* A grouping step that leaves the slot as the scan of the previous player
\* left it; C24 tells it from SlotAtGroupStart.
SlotCarriedOver(slot) == slot

\* login_dt = None at the head of the body of the loop over the groups
SlotAtGroupStart(slot) == None

\* The head of "for player, group in df.groupby('player_uuid')"
NextGroup ==
    /\ phase = "group"
    /\ todo # <<>>
    /\ player' = Head(todo)
    /\ todo' = Tail(todo)
    /\ group' \in SortedByDt(GroupRows(events, Head(todo)))
    /\ login_dt' = SlotAtGroupStart(login_dt)
    /\ pos' = 0
    /\ phase' = "scan"
    /\ UNCHANGED <<pipeVars, driverVars, callVars, events, session_data, scanlog>>

\* What scanlog keeps of one iteration of the inner loop
ScanEntry(pl, row, before, st, emitted) ==
    [player |-> pl, row |-> row, before |-> before, after |-> st.login_dt,
     emitted |-> emitted]

\* One iteration of "for _, row in group.iterrows()"
ScanRow ==
    /\ phase = "scan"
    /\ pos < Len(group)
    /\ \E st \in {ScanStep(player, [login_dt |-> login_dt, out |-> session_data],
                           group[pos + 1])} :
          /\ login_dt' = st.login_dt
          /\ session_data' = st.out
          /\ scanlog' = Append(scanlog,
                               ScanEntry(player, group[pos + 1], login_dt, st,
                                         SubSeq(st.out, Len(session_data) + 1,
                                                Len(st.out))))
    /\ pos' = pos + 1
    /\ phase' = IF pos + 1 = Len(group) THEN "group" ELSE "scan"
    /\ UNCHANGED <<pipeVars, driverVars, callVars, events, todo, player, group>>

\* return pd.DataFrame(session_data)
Return ==
    /\ phase = "group"
    /\ todo = <<>>
    /\ phase' = "done"
    /\ UNCHANGED <<pipeVars, driverVars, callVars, events, todo, player, group, pos, login_dt,
                   session_data, scanlog>>

SessNext == SortAndGroup \/ NextGroup \/ ScanRow \/ Return

SessSpec == SessInit /\ [][SessNext]_vars

(***************************************************************************)
(* Claims about the session reconstruction                                 *)
(***************************************************************************)
IsLogin(e) == e.row["event_type"] = "LOGIN"

IsLogout(e) == e.row["event_type"] = "LOGOUT"

\* The scanned rows of player pl in the order of the scan: the player's
\* timestamp-sorted event sequence, as far as it has been scanned.
Scanned(pl) == SelectSeq(scanlog, LAMBDA e : e.player = pl)

SessionsOf(pl) == SelectSeq(session_data, LAMBDA x : x["player_uuid"] = pl)

Count(seq, x) == Cardinality({i \in 1..Len(seq) : seq[i] = x})

\* The scan went through the rows of pl in ascending time and, once the
\* call has returned, through each of the player's events once.
ScannedInOrder(pl) ==
    LET s == Scanned(pl) IN
    /\ \A k \in 1..Len(s) - 1 : s[k].row["timestamp"] <= s[k + 1].row["timestamp"]
    /\ \A k \in 1..Len(s) :
          Cardinality({j \in 1..Len(s) : s[j].row = s[k].row}) <= Count(events, s[k].row)
    /\ phase = "done" =>
          Len(s) = Cardinality({i \in 1..Len(events) : events[i]["player_uuid"] = pl})

RECURSIVE EmittedBy(_)
EmittedBy(log) ==
    IF log = <<>> THEN <<>> ELSE log[1].emitted \o EmittedBy(Tail(log))

\* Minutes from the k-1st to the k-th scanned row of s
Gap(s, k) == s[k].row["timestamp"] - s[k - 1].row["timestamp"]

\* The k-th row of s is a LOGOUT that comes right after a LOGIN
AdjacentPair(s, k) == k > 1 /\ IsLogin(s[k - 1]) /\ IsLogout(s[k])

\* C7: every session emitted comes from a LOGIN and a LOGOUT of one player
\* that are adjacent in the player's time-sorted events, LOGIN first, with a
\* duration strictly between 0 and 1440 minutes; nothing else (a LOGIN
\* without a following LOGOUT, a pair with a duration out of range) yields a
\* session, and no duration is clamped into the range.
C7_SessionsOnlyFromAdjacentPairs ==
    /\ session_data = EmittedBy(scanlog)
    /\ \A pl \in Players :
          /\ ScannedInOrder(pl)
          /\ \A k \in 1..Len(Scanned(pl)) :
                LET s == Scanned(pl) IN
                s[k].emitted # <<>> =>
                   /\ AdjacentPair(s, k)
                   /\ 0 < Gap(s, k) /\ Gap(s, k) < 1440
                   /\ Len(s[k].emitted) = 1
                   /\ s[k].emitted[1]["player_uuid"] = pl
                   /\ s[k].emitted[1]["duration_minutes"] = Gap(s, k)

\* A returned call in which one pair gave a session, a LOGIN stayed without
\* LOGOUT and gave none.
C7_Witness ==
    /\ phase = "done"
    /\ session_data # <<>>
    /\ \E pl \in Players :
          /\ Scanned(pl) # <<>>
          /\ IsLogin(Scanned(pl)[Len(Scanned(pl))])
          /\ \E k \in 1..Len(Scanned(pl)) : Scanned(pl)[k].emitted # <<>>

WeekDays ==
    {"Monday", "Tuesday", "Wednesday", "Thursday", "Friday", "Saturday", "Sunday"}

\* The positions of s at which a LOGIN is directly followed by a LOGOUT less
\* than 1440 and more than 0 minutes later
Qualifying(s) ==
    {k \in 1..Len(s) : AdjacentPair(s, k) /\ 0 < Gap(s, k) /\ Gap(s, k) < 1440}

\* C8: each LOGIN directly followed, in the player's time-sorted events, by
\* a LOGOUT more than 0 and less than 1440 minutes later yields exactly one
\* session, of that player, lasting the difference in minutes, with the hour
\* (0..23) and the weekday name of the LOGIN instant.
C8_QualifyingPairYieldsSession ==
    \A pl \in Players :
       LET s == Scanned(pl) IN
       /\ \A k \in Qualifying(s) :
             /\ s[k].emitted =
                   <<[player_uuid |-> pl,
                      duration_minutes |-> Gap(s, k),
                      hour_of_day |-> (s[k - 1].row["timestamp"] \div 60) % 24,
                      day_of_week |-> DayName(s[k - 1].row["timestamp"])]>>
             /\ s[k].emitted[1]["hour_of_day"] \in 0..23
             /\ s[k].emitted[1]["day_of_week"] \in WeekDays
       /\ phase = "done" => Len(SessionsOf(pl)) = Cardinality(Qualifying(s))

\* A returned call with a session whose LOGOUT falls in another hour of
\* another day than its LOGIN.
C8_Witness ==
    /\ phase = "done"
    /\ \E pl \in Players : \E k \in Qualifying(Scanned(pl)) :
          LET s == Scanned(pl) IN
          /\ HourOf(s[k].row["timestamp"]) # HourOf(s[k - 1].row["timestamp"])
          /\ DayName(s[k].row["timestamp"]) # DayName(s[k - 1].row["timestamp"])
          /\ SessionsOf(pl) = s[k].emitted

EventTypes(s) == [k \in 1..Len(s) |-> s[k].row["event_type"]]

\* The time of the last LOGIN among the first k-1 rows of s, 0 if none
RECURSIVE LastLogin(_, _)
LastLogin(s, k) ==
    IF k <= 1 THEN 0
    ELSE IF IsLogin(s[k - 1]) THEN s[k - 1].row["timestamp"]
    ELSE LastLogin(s, k - 1)

\* C9: a LOGIN scanned while a login is open replaces it; a session is
\* measured from the last LOGIN before its LOGOUT, never from an earlier one;
\* LOGIN, LOGIN, LOGOUT in ascending time with the second pair in range
\* yields exactly one session, measured from the second LOGIN.
C9_LoginReplacesOpenLogin ==
    /\ \A i \in 1..Len(scanlog) :
          IsLogin(scanlog[i]) => scanlog[i].after = <<scanlog[i].row["timestamp"]>>
    /\ \A pl \in Players :
          LET s == Scanned(pl) IN
          /\ \A k \in 1..Len(s) :
                s[k].emitted # <<>> =>
                   s[k].emitted[1]["duration_minutes"] =
                      s[k].row["timestamp"] - LastLogin(s, k)
          /\ (/\ phase = "done"
              /\ EventTypes(s) = <<"LOGIN", "LOGIN", "LOGOUT">>
              /\ 0 < Gap(s, 3) /\ Gap(s, 3) < 1440)
             => /\ Len(SessionsOf(pl)) = 1
                /\ SessionsOf(pl)[1]["duration_minutes"] = Gap(s, 3)

\* A returned call on LOGIN, LOGIN, LOGOUT at three different times, one
\* session, the second LOGIN scanned with the first one open.
C9_Witness ==
    /\ phase = "done"
    /\ \E pl \in Players :
          LET s == Scanned(pl) IN
          /\ EventTypes(s) = <<"LOGIN", "LOGIN", "LOGOUT">>
          /\ s[1].row["timestamp"] < s[2].row["timestamp"]
          /\ s[2].before # None
          /\ Len(SessionsOf(pl)) = 1

\* C10: after a LOGOUT is scanned the open-login slot is empty, whether a
\* session was emitted, the duration was out of range or no login was open;
\* a LOGOUT scanned with no login open emits nothing; LOGIN, LOGOUT out of
\* range, LOGOUT yields no session.
C10_LogoutClearsSlot ==
    /\ \A i \in 1..Len(scanlog) :
          IsLogout(scanlog[i]) =>
             /\ scanlog[i].after = None
             /\ scanlog[i].before = None => scanlog[i].emitted = <<>>
    /\ (pos > 0 /\ group[pos]["event_type"] = "LOGOUT") => login_dt = None
    /\ \A pl \in Players :
          LET s == Scanned(pl) IN
          (/\ phase = "done"
           /\ EventTypes(s) = <<"LOGIN", "LOGOUT", "LOGOUT">>
           /\ ~(0 < Gap(s, 2) /\ Gap(s, 2) < 1440))
          => SessionsOf(pl) = <<>>

\* A returned call on LOGIN, LOGOUT, LOGOUT whose first LOGOUT is out of
\* range and whose second one is in range of the LOGIN: no session.
C10_Witness ==
    /\ phase = "done"
    /\ \E pl \in Players :
          LET s == Scanned(pl) IN
          /\ EventTypes(s) = <<"LOGIN", "LOGOUT", "LOGOUT">>
          /\ ~(0 < Gap(s, 2) /\ Gap(s, 2) < 1440)
          /\ 0 < s[3].row["timestamp"] - s[1].row["timestamp"]
          /\ s[3].row["timestamp"] - s[1].row["timestamp"] < 1440
          /\ s[2].before # None /\ s[3].before = None
          /\ SessionsOf(pl) = <<>>

OwnRows(t, pl) == SelectSeq(t, LAMBDA r : r["player_uuid"] = pl)

OwnOfType(t, pl, type) ==
    SelectSeq(t, LAMBDA r : r["player_uuid"] = pl /\ r["event_type"] = type)

OthersOfType(pl, type) == {r \in EventRows(type) : r["player_uuid"] # pl}

\* The input tables within the bounds that hold the events of pl that t
\* holds, in the same order, and any events of the other players.
Variants(t, pl) ==
    LET room == MaxEvents - Len(OwnRows(t, pl))
        sizes == {n \in (0..room) \X (0..room) :
                     n[1] + n[2] <= room}
    IN UNION {{(a \o OwnOfType(t, pl, "LOGIN")) \o (OwnOfType(t, pl, "LOGOUT") \o b) :
                  a \in [1..n[1] -> OthersOfType(pl, "LOGIN")],
                  b \in [1..n[2] -> OthersOfType(pl, "LOGOUT")]} :
              n \in sizes}

\* The sessions of pl in the tables _feature_engineering can return from t
SessionsFor(t, pl) ==
    {SelectSeq(out, LAMBDA x : x["player_uuid"] = pl) :
        out \in SessionsFeatureEngineering(t)}

\* C11: the sessions emitted for a player depend on that player's events
\* only: they are sessions the reconstruction emits for the player from any
\* table that holds the same events of the player and other events of other
\* players; the scan of a player starts with no login open, and a LOGOUT
\* closes or pairs only a login of its own player.
C11_PlayersDoNotInteract ==
    /\ phase = "done" =>
          \A pl \in PlayersIn(events) : \A u \in Variants(events, pl) :
             SessionsOf(pl) \in SessionsFor(u, pl)
    /\ \A i \in 1..Len(scanlog) :
          /\ (i = 1 \/ scanlog[i - 1].player # scanlog[i].player) =>
                scanlog[i].before = None
          /\ scanlog[i].row["player_uuid"] = scanlog[i].player
          /\ scanlog[i].before # None =>
                /\ i > 1
                /\ scanlog[i - 1].player = scanlog[i].player
                /\ \E j \in 1..(i - 1) :
                      /\ scanlog[j].player = scanlog[i].player
                      /\ IsLogin(scanlog[j])
                      /\ scanlog[i].before = <<scanlog[j].row["timestamp"]>>
          /\ \A k \in 1..Len(scanlog[i].emitted) :
                scanlog[i].emitted[k]["player_uuid"] = scanlog[i].row["player_uuid"]

\* A returned call in which one player is left with a login open, the next
\* player's first event is a LOGOUT in range of it, and no session comes of
\* it, while the first player has events of the other kind in a variant.
C11_Witness ==
    /\ phase = "done"
    /\ session_data = <<>>
    /\ \E i \in 2..Len(scanlog) :
          /\ scanlog[i - 1].player # scanlog[i].player
          /\ scanlog[i - 1].after # None
          /\ IsLogout(scanlog[i])
          /\ 0 < scanlog[i].row["timestamp"] - scanlog[i - 1].after[1]
          /\ scanlog[i].row["timestamp"] - scanlog[i - 1].after[1] < 1440
    /\ \E pl \in PlayersIn(events) : Cardinality(Variants(events, pl)) > 1

(***************************************************************************)
(* NormSpec: one call of _clean_json_context on a table                    *)
(***************************************************************************)
MaxRecords == 2

\* The mappings a context denotes within the bounds
NormMaps ==
    {EmptyMap, [species |-> "Pikachu"], [species |-> "Pikachu", isShiny |-> "True"]}

\* The context_data cells: a mapping as a structure, as a strict-JSON string
\* or as a Python-literal string, a string no decoder accepts
\* ("not json{{{"), a string on which ast.literal_eval raises TypeError
\* ("{{}}"), and a value that is not a string (NaN).
NormContexts ==
    {Ctx(k, m) : k \in {"dict", "json"}, m \in NormMaps}
    \cup {Ctx("literal", m) : m \in NormMaps \ {EmptyMap}}
    \cup {Ctx(k, EmptyMap) : k \in {"garbage", "unhashable", "nonstr"}}

\* The records of a table with or without a top-level species column and
\* with or without a context_data column
NormRows(hasSpecies, hasContext) ==
    LET top == IF hasSpecies THEN [player_uuid |-> "A", species |-> "Eevee"]
               ELSE [player_uuid |-> "A"]
    IN IF hasContext THEN {("context_data" :> c) @@ top : c \in NormContexts}
       ELSE {top}

NormTables ==
    UNION {[1..n -> NormRows(sp, cx)] :
              n \in 1..MaxRecords, sp \in BOOLEAN, cx \in BOOLEAN}

NormInit ==
    /\ PipeIdle
    /\ DriverIdle
    /\ SessIdle
    /\ callee = "normalize"
    /\ callP \in PipelineNames
    /\ callIn \in NormTables
    /\ callOut = NotCalled

\* df = self._clean_json_context(df)
Normalize ==
    /\ callee = "normalize"
    /\ ~callOut.done
    /\ \E r \in {CleanJsonContext(callP, callIn)} :
          callOut' = [done |-> TRUE, raised |-> r.raised, df |-> r.df, artifact |-> {}]
    /\ UNCHANGED <<pipeVars, driverVars, sessVars, callee, callP, callIn>>

NormNext == Normalize

NormSpec == NormInit /\ [][NormNext]_vars

(***************************************************************************)
(* Claims about the context normaliser                                     *)
(***************************************************************************)
Normalized == callee = "normalize" /\ callOut.done

Returned == Normalized /\ ~callOut.raised

TopFields(row) == DOMAIN row \ {"context_data"}

HasContext(row) == "context_data" \in DOMAIN row

\* The context is a mapping in one of the formats of the specification
Decodes(x) == x.kind \in {"dict", "json", "literal"}

\* Record i of the input has key c both at top level and in its context
OnBothSides(i, c) ==
    /\ HasContext(callIn[i])
    /\ Decodes(callIn[i]["context_data"])
    /\ c \in TopFields(callIn[i])
    /\ c \in DOMAIN callIn[i]["context_data"].map

\* Record i of the output has one field named c, with the input's value
OriginalKept(i, c) ==
    /\ i <= Len(callOut.df)
    /\ c \in DOMAIN callOut.df[i]
    /\ callOut.df[i][c] = callIn[i][c]
    /\ Dup(c) \notin DOMAIN callOut.df[i]

\* C12: for every pipeline and record, a key present both at top level and
\* in the decoded context is, after normalisation, one field holding the
\* top-level value; the value from the context is dropped.
C12_OriginalWins ==
    Returned =>
       \A i \in 1..Len(callIn) : \A c \in DOMAIN callIn[i] :
          OnBothSides(i, c) => OriginalKept(i, c)

\* The part of C12 that holds of the code: the base normaliser.
C12_BaseOriginalWins ==
    (Returned /\ callP # "breeding") =>
       \A i \in 1..Len(callIn) : \A c \in DOMAIN callIn[i] :
          OnBothSides(i, c) => OriginalKept(i, c)

\* The output has a record for each input record, with its top-level fields
FieldsKept ==
    /\ Len(callOut.df) = Len(callIn)
    /\ \A i \in 1..Len(callIn) : \A c \in TopFields(callIn[i]) :
          i <= Len(callOut.df) /\ c \in DOMAIN callOut.df[i]

\* C13: for every pipeline the normalised table has no context_data field;
\* the records keep their other fields and gain zero or more new ones.
C13_NoContextData ==
    Returned => ("context_data" \notin Columns(callOut.df) /\ FieldsKept)

\* The part of C13 that holds of the code: the base normaliser.
C13_BaseNoContextData ==
    (Returned /\ callP # "breeding") =>
       ("context_data" \notin Columns(callOut.df) /\ FieldsKept)

\* The table t with every context that is a mapping written in format k
\* (an empty mapping reads "{}" as a literal and as JSON alike)
Recode(t, k) ==
    [i \in 1..Len(t) |->
        IF HasContext(t[i]) /\ Decodes(t[i]["context_data"])
        THEN [t[i] EXCEPT !["context_data"] =
                 Ctx(IF k = "literal" /\ @.map = EmptyMap THEN "json" ELSE k, @.map)]
        ELSE t[i]]

\* The fields and values the records of out have beyond those of t
Derived(t, out) ==
    [i \in 1..Len(out) |->
        [c \in DOMAIN out[i] \ (IF i <= Len(t) THEN DOMAIN t[i] ELSE {}) |-> out[i][c]]]

SameDerivedInFormat(k) ==
    LET r == CleanJsonContext(callP, Recode(callIn, k)) IN
    /\ ~r.raised
    /\ Derived(Recode(callIn, k), r.df) = Derived(callIn, callOut.df)

\* C14: for every pipeline, a context given as strict JSON, as a
\* single-quoted literal or as a structured mapping normalises to the same
\* context-derived fields and values.
C14_DualFormat ==
    Returned => \A k \in {"dict", "json", "literal"} : SameDerivedInFormat(k)

\* The part of C14 that holds of the code: the base normaliser.
C14_BaseDualFormat ==
    (Returned /\ callP # "breeding") =>
       \A k \in {"dict", "json", "literal"} : SameDerivedInFormat(k)

\* One record out per record in, in order, the top-level values as they
\* were, and nothing but fillers gained by a record whose context is no
\* mapping
Tolerated ==
    /\ ~callOut.raised
    /\ Len(callOut.df) = Len(callIn)
    /\ \A i \in 1..Len(callIn) :
          /\ i <= Len(callOut.df)
          /\ \A c \in TopFields(callIn[i]) :
                c \in DOMAIN callOut.df[i] /\ callOut.df[i][c] = callIn[i][c]
          /\ (HasContext(callIn[i]) /\ ~Decodes(callIn[i]["context_data"])) =>
                \A c \in DOMAIN callOut.df[i] \ DOMAIN callIn[i] :
                   callOut.df[i][c] = "NaN"

\* C15: for every table and every context_data value the normalise step
\* does not raise and returns one record per input record in the same order;
\* a record whose context does not decode to a mapping gains no
\* context-derived value and the other records are unaffected.
C15_DecodeFailureTolerated == Normalized => Tolerated

\* The part of C15 that holds of the code: contexts on which
\* ast.literal_eval raises ValueError or SyntaxError, and values that are
\* not strings.
C15_CaughtFailureTolerated ==
    (Normalized /\ \A i \in 1..Len(callIn) :
                      HasContext(callIn[i]) =>
                         callIn[i]["context_data"].kind # "unhashable")
    => Tolerated

(***************************************************************************)
(* C16: the order of the steps of run()                                    *)
(***************************************************************************)
StepOrder == <<"extract", "normalize", "feature", "global", "save", "viz">>

PastExtraction(run) == Len(run.res.steps) > 1

\* The table handed from step to step in a run that returned: the frame
\* extracted goes to the normaliser, its result to the domain feature step,
\* that result g to the global step, whose result is what _save_data wrote
\* and what the visualisation step drew.
HandedOn(run) ==
    \E cj \in {CleanJsonContext(run.p, run.res.extracted)} :
       /\ ~cj.raised
       /\ ~FeatureRaises(run.p, cj.df)
       /\ \E fe \in FeatureOutcomes(run.p, cj.df) :
          \E g \in {GlobalFeatures(fe)} :
             /\ run.res.wrote = ToCsv(g)
             /\ run.cleanAfter = ToCsv(g)
             /\ run.res.artifact = GenerateVisualizationData(run.p, g)

\* C16: in every run of every pipeline that gets past extraction the steps
\* begun are an initial part of extract, normalize, feature, global, save,
\* viz (so none runs twice or out of turn), a run that returns did all six,
\* each on the result of the step before it, and a run that did not reach
\* the save step wrote nothing.
C16_FixedStepOrder ==
    /\ IsPrefix(last.res.steps, StepOrder)
    /\ PastExtraction(last) =>
          /\ ~IsEmpty(last.res.extracted)
          /\ last.res.outcome \in {"returned", "raised"}
          /\ last.res.outcome = "returned" <=> last.res.steps = StepOrder
          /\ last.res.outcome = "returned" => HandedOn(last)
          /\ last.res.outcome = "raised" =>
                last.res.wrote = NoFile /\ last.cleanAfter = last.cleanBefore

\* A run that returned after the global step added a column to the table
\* the domain step returned.
C16_Witness ==
    /\ last.res.outcome = "returned"
    /\ last.res.steps = StepOrder
    /\ last.p # "sessions"
    /\ \E c \in Columns(last.res.wrote.rows) : c = "server_s1"

(***************************************************************************)
(* C17: the artifact of a run that completed                               *)
(***************************************************************************)
Completed(run) == run.res.outcome = "returned" /\ run.res.steps = StepOrder

\* C17: a run that completes the full sequence returns a non-empty artifact,
\* and a run that returns an empty artifact is a run that ended at the
\* no-data return.
C17_CompletedRunHasArtifact ==
    /\ Completed(last) => last.res.artifact # {}
    /\ last.res.outcome \in {"returned", "no_data"} /\ last.res.artifact = {}
          => last.res.outcome = "no_data"

\* What does hold: the no-data return hands back the empty artifact, and a
\* completed run of a pipeline other than sessions on rows that carry the
\* fields it charts returns the keys of its charts.
C17_NoDataIsEmpty ==
    /\ last.res.outcome = "no_data" => last.res.artifact = {}
    /\ Completed(last) /\ last.p # "sessions"
       /\ (\A at \in DOMAIN last.answer : last.answer[at] = WellFormed(at))
       /\ last.res.fetched # {}
          => last.res.artifact # {}

(***************************************************************************)
(* C18: an exception of the domain feature step                            *)
(***************************************************************************)
\* The run got past extraction with session events that have no timestamp
\* column: _feature_engineering of the sessions pipeline then sorts by a dt
\* column that was never created and raises KeyError.
FeatureStepRaises(run) ==
    /\ run.p = "sessions"
    /\ ~IsEmpty(run.res.extracted)
    /\ "timestamp" \notin Columns(run.res.extracted)

\* The record main() kept of the call of run() that last describes
CallOf(run) == invoked[Len(invoked)]

\* C18: when the domain feature step raises, run() ends with the exception:
\* the feature step is the last step begun, nothing is written and no
\* artifact is returned; main() catches it, stores nothing for the pipeline
\* and goes on with the loop.
C18_FeatureFailurePropagates ==
    (invoked # <<>> /\ FeatureStepRaises(last)) =>
        /\ last.res.outcome = "raised"
        /\ last.res.steps = <<"extract", "normalize", "feature">>
        /\ last.res.wrote = NoFile
        /\ last.cleanAfter = last.cleanBefore
        /\ last.res.artifact = {}
        /\ CallOf(last).name = last.p /\ CallOf(last).outcome = "raised"
        /\ last.p \notin DOMAIN consolidated
        /\ pc \in {"loop", "report", "done"}
        /\ idx = Len(invoked) + 1

\* The feature step of the sessions pipeline raised and the pipeline called
\* after it returned its artifact to main().
C18_Witness ==
    /\ Len(invoked) >= 2
    /\ invoked[Len(invoked) - 1].name = "sessions"
    /\ invoked[Len(invoked) - 1].outcome = "raised"
    /\ invoked[Len(invoked)].outcome = "returned"
    /\ invoked[Len(invoked)].name \in DOMAIN consolidated
    /\ "sessions" \notin DOMAIN consolidated
    /\ rawFile["SESSION_LOGIN"].exists
    /\ "timestamp" \notin Columns(rawFile["SESSION_LOGIN"].rows)
    /\ ~cleanFile["sessions"].exists

(***************************************************************************)
(* C19: extraction and the absence of data                                 *)
(***************************************************************************)
\* C19: in any sequence of runs the extraction step of no pipeline raises;
\* when there is no data, in this run or an earlier one, it returns an
\* empty table.
C19_ExtractionNeverRaises ==
    /\ ~ExtractionRaised(last)
    /\ (last.p # "none" /\ \A at \in DOMAIN last.answer : last.answer[at] = <<>>)
       /\ (\A at \in DOMAIN last.rawBefore : ~last.rawBefore[at].exists)
          => last.res.outcome = "no_data" /\ IsEmpty(last.res.extracted)

\* What does hold: the extraction of the pipelines other than sessions
\* never raises, and the first run of any pipeline on no data returns the
\* empty table.
C19_BaseExtractionNeverRaises ==
    /\ last.p # "sessions" => ~ExtractionRaised(last)
    /\ (last.p # "none" /\ \A at \in DOMAIN last.answer : last.answer[at] = <<>>)
       /\ (\A at \in DOMAIN last.rawBefore : ~last.rawBefore[at].exists)
          => last.res.outcome = "no_data" /\ IsEmpty(last.res.extracted)

(***************************************************************************)
(* C20: schema drift                                                       *)
(***************************************************************************)
\* The run fetched events of a drifted schema.
FetchedDrifted(run) ==
    \E at \in DOMAIN run.answer : run.answer[at] = Drifted(at)

\* The chart keys that are drawn from a field the drifted events lack
DriftedKeys(p) ==
    CASE p = "battles" -> {"win_rate"}
      [] p = "breeding" -> {}
      [] p = "captures" -> {"top_captured"}
      [] p = "commands" -> {"top_cmds"}
      [] p = "deaths" -> {"causes"}
      [] p = "economy" -> {"top_expensive"}
      [] p = "raids" -> {"raid_results"}
      [] p = "released" -> {"top_released"}
      [] p = "sessions" -> {"duration_dist", "heatmap"}
      [] p = "snapshots" -> {"fly_ratio"}

SkippedAndReturned(run) ==
    /\ run.res.outcome = "returned"
    /\ run.res.steps = StepOrder
    /\ run.res.artifact \cap DriftedKeys(run.p) = {}

\* C20: for every pipeline, a run on events that lack an expected column
\* skips what depends on the column, leaves the chart key out and returns;
\* run() does not raise, the sessions pipeline without timestamp included.
C20_SchemaDriftNeverRaises ==
    (invoked # <<>> /\ FetchedDrifted(last)) => SkippedAndReturned(last)

\* What does hold: the nine pipelines other than sessions skip and return.
C20_OtherPipelinesSkip ==
    (invoked # <<>> /\ FetchedDrifted(last) /\ last.p # "sessions")
        => SkippedAndReturned(last)

(***************************************************************************)
(* FeatSpec: one call of _feature_engineering on a cleaned table           *)
(***************************************************************************)
\* The domain fields of the records of a cleaned table of pipeline p: the
\* fields of a well-formed event, and values the step converts ("NaN" in a
\* numeric column, a lower-case result, the world and biome of a raid).
FeatFields(p) ==
    CASE p = "battles" -> {DomainContext(p), [result |-> "loss", opponentType |-> "WILD"]}
      [] p = "breeding" -> {[species |-> "Pikachu"], [species |-> "Pikachu", iv_hp |-> "NaN"]}
      [] p = "captures" -> {DomainContext(p), EmptyMap}
      [] p = "commands" -> {DomainContext(p), [command |-> "/msg hi"]}
      [] p = "deaths" -> {DomainContext(p), [cause |-> "mob"]}
      [] p = "economy" ->
           {DomainContext(p),
            [itemType |-> "ITEM", description |-> "Potion", price |-> "NaN"]}
      [] p = "raids" ->
           {DomainContext(p),
            [result |-> "WIN", world |-> "plains", biome |-> "overworld"]}
      [] p = "released" -> {DomainContext(p), [species |-> "Pikachu", level |-> "NaN"]}
      [] p = "sessions" -> {[event_type |-> "LOGIN"], [event_type |-> "LOGOUT"]}
      [] p = "snapshots" -> {DomainContext(p), [fly_ratio |-> "NaN"]}

FeatRows(p) ==
    {f @@ [player_uuid |-> pl, timestamp |-> t, server_id |-> "s1"] :
        f \in FeatFields(p), pl \in {"A"}, t \in {LoginTime, LogoutTime}}

\* The tables handed to the step: one to MaxRecords records with the same
\* columns.
FeatTables(p) ==
    UNION {{t \in [1..n -> FeatRows(p)] :
               \A i \in 1..n : DOMAIN t[i] = DOMAIN t[1]} : n \in 1..MaxRecords}

FeatInit ==
    /\ PipeIdle
    /\ DriverIdle
    /\ SessIdle
    /\ callee = "feature"
    /\ callP \in PipelineNames
    /\ callIn \in FeatTables(callP)
    /\ callOut = NotCalled

\* df = self._feature_engineering(df)
Feature ==
    /\ callee = "feature"
    /\ ~callOut.done
    /\ IF FeatureRaises(callP, callIn)
       THEN callOut' = [done |-> TRUE, raised |-> TRUE, df |-> <<>>, artifact |-> {}]
       ELSE \E out \in FeatureOutcomes(callP, callIn) :
               callOut' = [done |-> TRUE, raised |-> FALSE, df |-> out, artifact |-> {}]
    /\ UNCHANGED <<pipeVars, driverVars, sessVars, callee, callP, callIn>>

FeatNext == Feature

FeatSpec == FeatInit /\ [][FeatNext]_vars

(***************************************************************************)
(* C21: what the domain feature step does to the table                     *)
(***************************************************************************)
Featured == callee = "feature" /\ callOut.done /\ ~callOut.raised

\* Every record of the input is in the output with every field it had,
\* unchanged.
OnlyAdded(in, out) ==
    /\ Len(out) = Len(in)
    /\ \A i \in 1..Len(in) :
          \A c \in DOMAIN in[i] : c \in DOMAIN out[i] /\ out[i][c] = in[i][c]

\* C21: for every pipeline the domain feature step only adds columns: the
\* records are kept and every field that existed keeps its value.
C21_FeatureStepOnlyAdds ==
    Featured => OnlyAdded(callIn, callOut.df)

\* What does hold: the step of the commands pipeline, which assigns only
\* to base_command, cmd_length and is_teleport, only adds columns.
C21_CommandsStepOnlyAdds ==
    (Featured /\ callP = "commands") => OnlyAdded(callIn, callOut.df)

(***************************************************************************)
(* FetchSpec: one call of APIClient.fetch_data                             *)
(***************************************************************************)
\* What requests.get meets: an exception of the transport (no connection,
\* the 30 s timeout, an API_URL without scheme such as the default ""), or
\* a response with a status code and a body.
TransportFaults == {"ConnectionError", "Timeout", "MissingSchema"}

StatusCodes == {200, 401, 500}

\* The bodies: no bytes, bytes that are not JSON, the JSON null, and a
\* JSON list of no to MaxRecords events.
Bodies(at) ==
    {[kind |-> k, rows |-> <<>>] : k \in {"empty", "not_json", "null"}}
    \cup {[kind |-> "list", rows |-> rows] :
             rows \in UNION {[1..n -> {WellFormed(at)[1]}] : n \in 0..MaxRecords}}

Responses(at) ==
    {[fault |-> f, status |-> 0, body |-> [kind |-> "empty", rows |-> <<>>]] :
        f \in TransportFaults}
    \cup {[fault |-> "none", status |-> c, body |-> b] :
             c \in StatusCodes, b \in Bodies(at)}

\* The exception classes derived from requests.exceptions.RequestException;
\* Response.json() raises requests.exceptions.JSONDecodeError.
RequestExceptions ==
    {"ConnectionError", "Timeout", "MissingSchema", "HTTPError", "JSONDecodeError"}

\* A handler for connection errors only; C22 tells it from Handle.
HandleConnectionOnly(cls) ==
    IF cls = "ConnectionError"
    THEN [raised |-> FALSE, data |-> <<>>]
    ELSE [raised |-> TRUE, data |-> <<>>]

\* except requests.exceptions.RequestException as e: ... return []
Handle(cls) ==
    IF cls \in RequestExceptions
    THEN [raised |-> FALSE, data |-> <<>>]
    ELSE [raised |-> TRUE, data |-> <<>>]

\* APIClient.fetch_data when the request meets env
FetchData(env) ==
    IF env.fault # "none" THEN Handle(env.fault)
    ELSE IF env.status >= 400 THEN Handle("HTTPError")
    ELSE IF env.body.kind \in {"empty", "not_json"} THEN Handle("JSONDecodeError")
    ELSE IF env.body.kind = "null" \/ env.body.rows = <<>>
    THEN [raised |-> FALSE, data |-> <<>>]
    ELSE [raised |-> FALSE, data |-> env.body.rows]

FetchInit ==
    /\ PipeIdle
    /\ DriverIdle
    /\ SessIdle
    /\ callee = "fetch"
    /\ callP \in AllTypes
    /\ callIn \in Responses(callP)
    /\ callOut = NotCalled

\* data = client.fetch_data(action_type)
Fetch ==
    /\ callee = "fetch"
    /\ ~callOut.done
    /\ \E r \in {FetchData(callIn)} :
          callOut' = [done |-> TRUE, raised |-> r.raised, df |-> r.data, artifact |-> {}]
    /\ UNCHANGED <<pipeVars, driverVars, sessVars, callee, callP, callIn>>

FetchNext == Fetch

FetchSpec == FetchInit /\ [][FetchNext]_vars

(***************************************************************************)
(* C22: fetch_data does not raise                                          *)
(***************************************************************************)
Fetched == callee = "fetch" /\ callOut.done

\* The request failed: in the transport, by its status, or in the decoding
\* of the body.
FetchFailed(env) ==
    \/ env.fault # "none"
    \/ env.status \in {401, 500}
    \/ env.body.kind \in {"empty", "not_json"}

\* C22: fetch_data never raises to its caller; a failure of the transport,
\* of authentication, a timeout or a body that does not decode gives the
\* empty sequence, and so does a null or empty body; otherwise the events
\* of the body are returned.
C22_FetchNeverRaises ==
    Fetched =>
        /\ ~callOut.raised
        /\ FetchFailed(callIn) => callOut.df = <<>>
        /\ callIn.body.kind = "null" \/ callIn.body.rows = <<>> => callOut.df = <<>>
        /\ ~FetchFailed(callIn) /\ callIn.body.kind = "list"
              => callOut.df = callIn.body.rows

\* A request that timed out, was refused or was answered by a body that is
\* no JSON has returned the empty sequence.
C22_Witness ==
    /\ Fetched
    /\ ~callOut.raised
    /\ callOut.df = <<>>
    /\ \/ callIn.fault = "Timeout"
       \/ callIn.status = 401
       \/ callIn.status = 200 /\ callIn.body.kind = "not_json"

(***************************************************************************)
(* C23: the order of the scan among events of equal timestamp              *)
(***************************************************************************)
\* The position of the first row of g that no row precedes in dt
FirstMin(g) ==
    CHOOSE i \in 1..Len(g) :
        /\ \A k \in 1..Len(g) : NotAfter(Dt(g[i]), Dt(g[k]))
        /\ \A j \in 1..(i - 1) : \E k \in 1..Len(g) : ~NotAfter(Dt(g[j]), Dt(g[k]))

\* The rows of g in ascending dt, rows of equal dt in their order in g
RECURSIVE StableByDt(_)
StableByDt(g) ==
    IF g = <<>> THEN <<>>
    ELSE <<g[FirstMin(g)]>> \o StableByDt(Without(g, FirstMin(g)))

Ascending(g) ==
    \A i \in 1..Len(g) : \A j \in i..Len(g) : NotAfter(Dt(g[i]), Dt(g[j]))

\* The sessions a scan in stable order emits for the whole table
RECURSIVE StableSessions(_, _)
StableSessions(df, keys) ==
    IF keys = <<>> THEN <<>>
    ELSE ScanRows(Head(keys), [login_dt |-> None, out |-> <<>>],
                  StableByDt(GroupRows(df, Head(keys)))).out
         \o StableSessions(df, Tail(keys))

C23_AscendingScanOrder ==
    player # "none" =>
        /\ Ascending(group)
        /\ \A r \in RowsOf(group) : Count(group, r) = Count(GroupRows(events, player), r)

(***************************************************************************)
(* C24: the open-login slot during the scan                                *)
(***************************************************************************)
\* C24: while the events of an actor are scanned, after any number of them
\* the slot holds a login exactly if the event processed last is a LOGIN,
\* and then it holds the timestamp of that LOGIN; before the first event of
\* every actor the slot is empty.
C24_SlotTracksLastEvent ==
    phase \in {"scan", "group"} /\ player # "none" =>
        /\ pos = 0 => login_dt = None
        /\ pos > 0 =>
              /\ login_dt # None <=> group[pos]["event_type"] = "LOGIN"
              /\ login_dt # None => login_dt = <<Dt(group[pos])>>
        /\ \A k \in 1..Len(scanlog) :
              /\ (k = 1 \/ scanlog[k - 1].player # scanlog[k].player)
                    => scanlog[k].before = None
              /\ scanlog[k].after # None <=> IsLogin(scanlog[k])
              /\ IsLogin(scanlog[k]) => scanlog[k].after = <<Dt(scanlog[k].row)>>

\* The scan of the second player began with an empty slot although the scan
\* of the first player ended on a LOGIN, and the slot now holds the LOGIN of
\* the second player that was processed last.
C24_Witness ==
    /\ phase = "scan"
    /\ player = "B"
    /\ Len(scanlog) >= 2
    /\ scanlog[Len(scanlog) - 1].player = "A"
    /\ scanlog[Len(scanlog) - 1].after # None
    /\ scanlog[Len(scanlog)].player = "B"
    /\ scanlog[Len(scanlog)].before = None
    /\ IsLogin(scanlog[Len(scanlog)])
    /\ login_dt = <<Dt(group[pos])>>

(***************************************************************************)
(* VizFaultSpec: main() when a visualisation step can raise                *)
(***************************************************************************)
\* A run() that calls _save_data after the visualisation step: when that
\* step raises, nothing was written; C25 tells it from RunOrVizRaise.
RunSavingAfterViz(p, raw, clean, resp) ==
    UNION {{r} \cup (IF r.outcome = "returned"
                     THEN {[r EXCEPT !.outcome = "raised", !.artifact = {},
                                     !.clean = clean, !.wrote = NoFile]}
                     ELSE {}) :
              r \in Run(p, raw, clean, resp)}

\* run() when the call of _generate_visualization_data on its last line
\* either returns or raises: the steps before it have been done, the
\* cleaned table among them.
RunOrVizRaise(p, raw, clean, resp) ==
    UNION {{r} \cup (IF r.outcome = "returned"
                     THEN {[r EXCEPT !.outcome = "raised", !.artifact = {}]}
                     ELSE {}) :
              r \in Run(p, raw, clean, resp)}

\* The answers drawn in VizFaultSpec: no rows, rows that pass and rows on
\* which normalisation raises for the first pipeline, rows that pass for
\* the others, and for the session types also no rows and rows on which
\* the feature step raises.
VizFaultAnswers ==
    [at \in AllTypes |->
        IF at \in {"SESSION_LOGIN", "SESSION_LOGOUT"}
        THEN {<<>>, WellFormed(at), Drifted(at)}
        ELSE IF at = ActionType(Pipelines[1])
        THEN {<<>>, WellFormed(at), Unhashable}
        ELSE {WellFormed(at)}]

VizFaultLoopBody ==
    /\ pc = "loop"
    /\ idx <= Len(Pipelines)
    /\ \E resp \in {f \in [ReadTypes(Pipelines[idx]) ->
                               UNION {VizFaultAnswers[at] : at \in AllTypes}] :
                        \A at \in ReadTypes(Pipelines[idx]) :
                           f[at] \in VizFaultAnswers[at]} :
       \E r \in RunOrVizRaise(Pipelines[idx], rawFile, cleanFile, resp) :
          /\ rawFile' = r.raw
          /\ cleanFile' = r.clean
          /\ consolidated' = Collect(consolidated, Pipelines[idx], r)
          /\ invoked' = Append(invoked, [name |-> Pipelines[idx],
                                         outcome |-> r.outcome,
                                         artifact |-> r.artifact])
          /\ last' = RunRecord(Pipelines[idx], rawFile, cleanFile, resp, r)
          /\ pc' = AfterRun(idx, r)
          /\ idx' = idx + 1
    /\ UNCHANGED <<nruns, prev, reports, sessVars, callVars>>

VizFaultNext == VizFaultLoopBody \/ GenerateReport

VizFaultSpec == DriverInit /\ [][VizFaultNext]_vars

(***************************************************************************)
(* C25: when the cleaned table is written                                  *)
(***************************************************************************)
Wrote(run) == run.res.wrote # NoFile

VizRaised(run) == run.res.outcome = "raised" /\ run.res.steps = StepOrder

\* The table written is the result of the global step on a result of the
\* feature step on the normalised extraction, none of which raised.
WroteResultOfSteps(run) ==
    \E cj \in {CleanJsonContext(run.p, run.res.extracted)} :
       /\ ~cj.raised
       /\ ~FeatureRaises(run.p, cj.df)
       /\ \E fe \in FeatureOutcomes(run.p, cj.df) :
             run.res.wrote = ToCsv(GlobalFeatures(fe))

\* C25: a run writes the cleaned file only if extraction was not empty and
\* normalisation, the feature step and the global step returned; it writes
\* it at most once, before the visualisation step; a run that does not
\* write leaves the file as it was; and when the visualisation step raises
\* the file is already written although main() stores no artifact for the
\* pipeline.
C25_SavedBeforeVisualization ==
    invoked # <<>> =>
        /\ IsPrefix(last.res.steps, StepOrder)
        /\ Wrote(last) =>
              /\ ~IsEmpty(last.res.extracted)
              /\ IsPrefix(<<"extract", "normalize", "feature", "global", "save">>,
                          last.res.steps)
              /\ WroteResultOfSteps(last)
              /\ last.cleanAfter = last.res.wrote
        /\ ~Wrote(last) =>
              /\ last.cleanAfter = last.cleanBefore
              /\ \A i \in 1..Len(last.res.steps) : last.res.steps[i] # "save"
        /\ VizRaised(last) =>
              /\ Wrote(last)
              /\ cleanFile[last.p] = last.res.wrote
              /\ last.p \notin DOMAIN consolidated
              /\ CallOf(last).outcome = "raised"

\* The visualisation step of a pipeline raised: its cleaned file is there
\* and main() has gone on without an artifact for it.
C25_Witness ==
    /\ invoked # <<>>
    /\ VizRaised(last)
    /\ cleanFile[last.p].exists
    /\ cleanFile[last.p].rows # <<>>
    /\ last.p \notin DOMAIN consolidated
    /\ pc \in {"loop", "report"}

(***************************************************************************)
(* C26: the order in which the events arrive                               *)
(***************************************************************************)
\* The timestamps of the events of each player are pairwise distinct.
DistinctTimes(df) ==
    \A i \in 1..Len(df) : \A j \in 1..Len(df) :
        (i # j /\ df[i]["player_uuid"] = df[j]["player_uuid"]) => Dt(df[i]) # Dt(df[j])

\* The tables with the rows of df in another order
Reorderings(df) ==
    {[i \in 1..Len(df) |-> df[f[i]]] :
        f \in {g \in [1..Len(df) -> 1..Len(df)] :
                  \A i \in 1..Len(df) : \E j \in 1..Len(df) : g[j] = i}}

\* The sessions of a table as a multiset
AsBag(sessions) == [s \in RowsOf(sessions) |-> Count(sessions, s)]

\* C26: when the events of each actor have pairwise distinct timestamps,
\* session reconstruction emits the same multiset of sessions for every
\* order of the input events.
C26_ArrivalOrderIrrelevant ==
    (phase = "done" /\ DistinctTimes(events)) =>
        \A u \in Reorderings(events) :
            \A out \in SessionTables(u, GroupKeys(u)) :
                AsBag(out) = AsBag(session_data)

\* A full table with distinct timestamps per player has been reconstructed
\* into a session, and in another order of its rows the logout comes first.
C26_Witness ==
    /\ phase = "done"
    /\ DistinctTimes(events)
    /\ Len(events) = MaxEvents
    /\ session_data # <<>>
    /\ \E u \in Reorderings(events) :
          u # events /\ u[1]["event_type"] = "LOGOUT" /\ u[1]["timestamp"] = LogoutTime

====
